---- MODULE Spec2Model ----
(***************************************************************************)
(* STREAMLINE pipeline: the phase driver (run_osa.py), the wave executor   *)
(* (streamline/utils/runners.py) and the run() bodies of the job classes   *)
(* (EDAJob, FeatureImportance, ReplicateJob).                              *)
(*                                                                         *)
(* Two specifications share the variables:                                 *)
(*   Spec     the driver running the eight phases through run_jobs;        *)
(*   JobSpec  job run() bodies executing step by step on one file system.  *)
(***************************************************************************)
EXTENDS Integers, Sequences, FiniteSets, TLC

\* ------------------------------------------------------------------ bounds
MaxJobs == 3
MaxCores == 2
NJobs == 2
MaxFolds == 2
MaxRuns == 2
MaxFaults == 1
MaxCtors == 2
MaxArgs == 2
MaxFeatures == 2
MaxScore == 2
MaxPath == 2

\* -------------------------------------------------------- program constants
NumPhases == 8

VARIABLES
    \* ---- driver and executor (Spec)
    num_cores,     \* runners.num_cores: [isInt, val]
    pc,            \* position of the main thread
    ph,            \* ordinal of the phase the driver is at
    constructed,   \* phases whose runner object has been constructed
    job_list,      \* argument of run_jobs
    i,             \* loop variable of run_jobs
    wave,          \* argument of sub_jobs
    k,             \* position of the loop of sub_jobs in wave (1-based)
    st,            \* state of the job objects, keyed by <<phase, index>>
    joined,        \* job objects on which join() has returned
    waves,         \* the lists handed to sub_jobs by the current run_jobs call
    failedPhase,   \* phase of the first job that raised, 0 if none
    err,           \* exception that reached the top level of the script
    \* ---- job bodies (JobSpec)
    jobs,          \* the job objects of one wave: their constructor arguments
    cv_partitions, \* number of files CVDatasets/*_CV_*Train.csv on disk
    algorithms,    \* ReplicateJob.algorithms
    jpc,           \* statement each job's run() is at
    cv_count,      \* ReplicateJob.run: loop variable over the folds
    alg_i,         \* ReplicateJob.run: position in self.algorithms (1-based)
    files,         \* the experiment directory: path -> content
    wrote,         \* paths each job has opened for writing
    failedAt,      \* statement at which a job's run() raised
    dirs,          \* the directories that exist under the experiment
    \* ---- invocations of the script on one experiment directory (ResumeSpec)
    markers,       \* jobsCompleted: job -> content of its marker file
    runNo,         \* ordinal of the invocation of the script
    matrix,        \* number of jobs in the job matrix of each phase
    preMarkers,    \* the marker files as the invocation found them
    prevClean,     \* the invocation before ended in DONE with no job failed
    faults,        \* jobs that raised or were killed so far
    \* ---- ReplicateJob.__init__ (CtorSpec)
    SUPPORTED_MODELS, \* the list object of streamline.modeling.utils
    args,          \* the algorithms and exclude arguments of the call
    self_algorithms,  \* self.algorithms when it is a list of its own
    aliased,       \* self.algorithms is the object SUPPORTED_MODELS
    cpc,           \* position inside __init__
    ci,            \* index of the for loop at hand
    built,         \* calls of __init__ so far
    \* ---- the loop over the folds in ReplicateJob.run (FoldSpec)
    rep,           \* impute_data, multi_impute, scale_data, instance_label
    imputers,      \* folds whose imputation pickles exist under scale_impute
    nfolds,        \* number of CV training files that glob finds
    fold_i,        \* cv_count of the loop
    fpc,           \* position inside the loop
    cv_rep_data,   \* the working copy of the replication data
    ferr,          \* exception that left run()
    \* ---- FeatureImportance.sort_save_fi_scores (ScoreSpec)
    feature_names, \* the feature columns of the dataset, in order
    scores,        \* the importance scores, one per feature
    output_path,   \* the path of the score file, character by character
    score_dict,    \* returned dictionary
    score_sorted_features,  \* returned list
    spc,           \* position inside FeatureImportance.run
    \* ---- EDAJob.__init__ (EdaSpec)
    eda_args,      \* the explorations and plots arguments of the call
    explorations,  \* self.explorations
    plots,         \* self.plots
    epc            \* position inside __init__

pvars == <<num_cores, pc, ph, constructed, job_list, i, wave, k, st, joined,
           waves, failedPhase, err>>

jvars == <<jobs, cv_partitions, algorithms, jpc, cv_count, alg_i, files,
           wrote, failedAt, dirs>>

rvars == <<markers, runNo, matrix, preMarkers, prevClean, faults>>

vars == <<num_cores, pc, ph, constructed, job_list, i, wave, k, st, joined,
          waves, failedPhase, err, jobs, cv_partitions, algorithms, jpc,
          cv_count, alg_i, files, wrote, failedAt, dirs, markers, runNo,
          matrix,
          preMarkers, prevClean, faults, SUPPORTED_MODELS, args,
          self_algorithms, aliased, cpc, ci, built, rep, imputers, nfolds,
          fold_i, fpc, cv_rep_data, ferr, feature_names, scores, output_path,
          score_dict, score_sorted_features, spc, eda_args, explorations,
          plots, epc>>

cvars == <<SUPPORTED_MODELS, args, self_algorithms, aliased, cpc, ci, built>>

fvars == <<rep, imputers, nfolds, fold_i, fpc, cv_rep_data, ferr>>

svars == <<feature_names, scores, output_path, score_dict,
           score_sorted_features, spc>>

evars == <<eda_args, explorations, plots, epc>>

\* the variables the driver and the executor leave alone
notP == <<jvars, rvars, cvars, fvars, svars, evars>>

\* the variables the body of a job leaves alone
notJ == <<pvars, rvars, cvars, fvars, svars, evars>>

\* ----------------------------------------------------------------- helpers
Min(a, b) == IF a <= b THEN a ELSE b

\* Python s[a:b] on a list, 0-based, b clipped to the length
Slice(s, a, b) == SubSeq(s, a + 1, Min(b, Len(s)))

RECURSIVE Concat(_)
Concat(ss) == IF ss = <<>> THEN <<>> ELSE Head(ss) \o Concat(Tail(ss))

Range(s) == {s[x] : x \in DOMAIN s}

\* num_cores is the string of the environment variable when it is set and
\* the integer multiprocessing.cpu_count() otherwise
NumCoresValues == [isInt : BOOLEAN, val : 1..MaxCores]

\* The job class each phase of run_osa.py schedules
JobKind(p) ==
    IF p = 1 THEN "EDAJob"
    ELSE IF p = 3 THEN "FeatureImportance"
    ELSE "Job"

\* EDAJob overrides start() to run the analysis in the caller
IsSyncStart(p) == JobKind(p) = "EDAJob"

Terminated(j) == st[j] \in {"ok", "failed"}

\* Job.join(): blocks until the job has terminated, success or failure, and
\* then returns
JobJoinReady(j) == Terminated(j)

\* EDAJob.join(): pass
JoinReady(j) == IF IsSyncStart(j[1]) THEN TRUE ELSE JobJoinReady(j)

\* the phase order of run_osa.py
NextPhase_skip(p) == p + 2
NextPhase(p) == p + 1

\* run_jobs: job_list[i:i + num_cores]
WaveOf_wide(jl, a, nc) == Slice(jl, a, a + nc + 1)
WaveOf(jl, a, nc) == Slice(jl, a, a + nc)

\* run_jobs: the step of range(0, len(job_list), num_cores)
RangeStep_stay(a, nc) == a
RangeStep(a, nc) == a + nc

\* sub_jobs: after the loop of start() comes the loop of join()
SubJobsStartDone_skipJoin == "sub_return"
SubJobsStartDone == "join"

\* sub_jobs: the join loop covers the whole list
JoinLoopDone_first(kk, w) == kk >= 1
JoinLoopDone_never(kk, w) == FALSE
JoinLoopDone(kk, w) == kk >= Len(w)

\* the module-level list SUPPORTED_MODELS as it is imported
SupportedModels == <<"Naive Bayes", "Logistic Regression", "eLCS">>

\* the names a caller can pass
ModelNames == Range(SupportedModels) \cup {"Bogus"}

\* an argument that is None, or a list of at most MaxArgs distinct names
ArgValues ==
    {[isNone |-> TRUE, list |-> <<>>]} \cup
    {[isNone |-> FALSE, list |-> l] :
        l \in {q \in UNION {[1..n -> ModelNames] : n \in 0..MaxArgs} :
                  \A x, y \in DOMAIN q : x # y => q[x] # q[y]}}

\* a data frame, by its columns; None
Frame(cols) == [isNone |-> FALSE, cols |-> cols]
None == [isNone |-> TRUE, cols |-> {}]

\* the state of the variables of the fold loop while no job is inside it
NoFold ==
    /\ rep = [impute_data |-> FALSE, multi_impute |-> FALSE,
              scale_data |-> FALSE, instance_label |-> FALSE]
    /\ imputers = {}
    /\ nfolds = 0
    /\ fold_i = 0
    /\ fpc = "idle"
    /\ cv_rep_data = None
    /\ ferr = "none"

\* the state of the variables of sort_save_fi_scores while it is not called
NoScore ==
    /\ feature_names = <<>>
    /\ scores = <<>>
    /\ output_path = <<>>
    /\ score_dict = <<>>
    /\ score_sorted_features = <<>>
    /\ spc = "idle"

\* the state of the variables of EDAJob.__init__ while it is not called
NoEda ==
    /\ eda_args = [explorations |-> [isNone |-> TRUE, list |-> <<>>],
                   plots |-> [isNone |-> TRUE, list |-> <<>>]]
    /\ explorations = <<>>
    /\ plots = <<>>
    /\ epc = "idle"

\* the state of the variables of __init__ while no call is under way
NoCtor ==
    /\ SUPPORTED_MODELS = SupportedModels
    /\ args = [algorithms |-> [isNone |-> TRUE, list |-> <<>>],
               exclude |-> [isNone |-> TRUE, list |-> <<>>]]
    /\ self_algorithms = <<>>
    /\ aliased = FALSE
    /\ cpc = "idle"
    /\ ci = 1
    /\ built = 0

\* ------------------------------------------------------------------- Init
Init ==
    /\ num_cores \in NumCoresValues
    /\ pc = "construct"
    /\ ph = 1
    /\ constructed = {}
    /\ job_list = <<>>
    /\ i = 0
    /\ wave = <<>>
    /\ k = 1
    /\ st = <<>>
    /\ joined = {}
    /\ waves = <<>>
    /\ failedPhase = 0
    /\ err = "none"
    /\ jobs = <<>>
    /\ cv_partitions = 0
    /\ algorithms = <<>>
    /\ jpc = <<>>
    /\ cv_count = <<>>
    /\ alg_i = <<>>
    /\ files = <<>>
    /\ wrote = <<>>
    /\ failedAt = <<>>
    /\ dirs = {}
    /\ markers = <<>>
    /\ runNo = 1
    /\ matrix = 0
    /\ preMarkers = <<>>
    /\ prevClean = FALSE
    /\ faults = 0
    /\ NoCtor
    /\ NoFold
    /\ NoScore
    /\ NoEda

\* ---------------------------------------------------------------- actions
\* run_osa.py: XRunner(...) for the phase at hand; the objects of the phase
\* before were released by `del obj`
Construct ==
    /\ pc = "construct"
    /\ constructed' = constructed \cup {ph}
    /\ st' = [j \in {x \in DOMAIN st : st[x] = "running"} |-> st[j]]
    /\ joined' = {}
    /\ job_list' = <<>>
    /\ waves' = <<>>
    /\ wave' = <<>>
    /\ i' = 0
    /\ k' = 1
    /\ pc' = "run"
    /\ UNCHANGED <<num_cores, ph, failedPhase, err>>
    /\ UNCHANGED notP

\* run(obj, phase_str): obj.run(run_parallel=True) builds the job objects of
\* the phase and hands the non-empty list to run_jobs
RunnerRun ==
    /\ pc = "run"
    /\ \E n \in 0..MaxJobs :
        /\ job_list' = [x \in 1..n |-> <<ph, x>>]
        /\ st' = [j \in DOMAIN st \cup {<<ph, x>> : x \in 1..n} |->
                    IF j \in DOMAIN st THEN st[j] ELSE "new"]
        /\ pc' = IF n = 0 THEN "returned" ELSE "run_jobs"
    /\ i' = 0
    /\ UNCHANGED <<num_cores, ph, constructed, wave, k, joined, waves,
                   failedPhase, err>>
    /\ UNCHANGED notP

\* run_jobs: range() rejects a step that is not an integer
RunJobsTypeError ==
    /\ pc = "run_jobs"
    /\ ~num_cores.isInt
    /\ pc' = "failed"
    /\ err' = "TypeError"
    /\ UNCHANGED <<num_cores, ph, constructed, job_list, i, wave, k, st,
                   joined, waves, failedPhase>>
    /\ UNCHANGED notP

\* run_jobs: one iteration of the for loop, calling sub_jobs
RunJobsIter ==
    /\ pc = "run_jobs"
    /\ num_cores.isInt
    /\ i < Len(job_list)
    /\ wave' = WaveOf(job_list, i, num_cores.val)
    /\ waves' = Append(waves, wave')
    /\ k' = 1
    /\ pc' = "start"
    /\ UNCHANGED <<num_cores, ph, constructed, job_list, i, st, joined,
                   failedPhase, err>>
    /\ UNCHANGED notP

\* run_jobs: the range is exhausted, run_jobs and obj.run return
RunJobsReturn ==
    /\ pc = "run_jobs"
    /\ num_cores.isInt
    /\ i >= Len(job_list)
    /\ pc' = "returned"
    /\ UNCHANGED <<num_cores, ph, constructed, job_list, i, wave, k, st,
                   joined, waves, failedPhase, err>>
    /\ UNCHANGED notP

\* sub_jobs: job.start() of a Job, which begins to run concurrently
StartJob ==
    /\ pc = "start"
    /\ k <= Len(wave)
    /\ ~IsSyncStart(wave[k][1])
    /\ st' = [st EXCEPT ![wave[k]] = "running"]
    /\ IF k >= Len(wave)
         THEN pc' = SubJobsStartDone /\ k' = 1
         ELSE pc' = pc /\ k' = k + 1
    /\ UNCHANGED <<num_cores, ph, constructed, job_list, i, wave, joined,
                   waves, failedPhase, err>>
    /\ UNCHANGED notP

\* sub_jobs: job.start() of an EDAJob runs run_explore in the caller and
\* returns
StartEDAOk ==
    /\ pc = "start"
    /\ k <= Len(wave)
    /\ IsSyncStart(wave[k][1])
    /\ st' = [st EXCEPT ![wave[k]] = "ok"]
    /\ IF k >= Len(wave)
         THEN pc' = SubJobsStartDone /\ k' = 1
         ELSE pc' = pc /\ k' = k + 1
    /\ UNCHANGED <<num_cores, ph, constructed, job_list, i, wave, joined,
                   waves, failedPhase, err>>
    /\ UNCHANGED notP

\* sub_jobs: job.start() of an EDAJob, run_explore raises; the exception
\* leaves sub_jobs, run_jobs, run and the script
StartEDARaise ==
    /\ pc = "start"
    /\ k <= Len(wave)
    /\ IsSyncStart(wave[k][1])
    /\ st' = [st EXCEPT ![wave[k]] = "failed"]
    /\ failedPhase' = IF failedPhase = 0 THEN ph ELSE failedPhase
    /\ pc' = "failed"
    /\ err' = "JobError"
    /\ UNCHANGED <<num_cores, ph, constructed, job_list, i, wave, k, joined,
                   waves>>
    /\ UNCHANGED notP

\* a running job finishes its run() normally
JobSucceed(j) ==
    /\ j \in DOMAIN st
    /\ st[j] = "running"
    /\ st' = [st EXCEPT ![j] = "ok"]
    /\ UNCHANGED <<num_cores, pc, ph, constructed, job_list, i, wave, k,
                   joined, waves, failedPhase, err>>
    /\ UNCHANGED notP

\* the run() of a running job raises: that job ends, nothing else changes
JobRaise(j) ==
    /\ j \in DOMAIN st
    /\ st[j] = "running"
    /\ st' = [st EXCEPT ![j] = "failed"]
    /\ failedPhase' = IF failedPhase = 0 THEN j[1] ELSE failedPhase
    /\ UNCHANGED <<num_cores, pc, ph, constructed, job_list, i, wave, k,
                   joined, waves, err>>
    /\ UNCHANGED notP

\* sub_jobs: job.join() returns
JoinJob ==
    /\ pc = "join"
    /\ k <= Len(wave)
    /\ JoinReady(wave[k])
    /\ joined' = joined \cup {wave[k]}
    /\ IF JoinLoopDone(k, wave)
         THEN pc' = "sub_return" /\ k' = 1
         ELSE pc' = pc /\ k' = k + 1
    /\ UNCHANGED <<num_cores, ph, constructed, job_list, i, wave, st, waves,
                   failedPhase, err>>
    /\ UNCHANGED notP

\* sub_jobs returns, the for loop of run_jobs advances
SubJobsReturn ==
    /\ pc = "sub_return"
    /\ i' = RangeStep(i, num_cores.val)
    /\ pc' = "run_jobs"
    /\ UNCHANGED <<num_cores, ph, constructed, job_list, wave, k, st, joined,
                   waves, failedPhase, err>>
    /\ UNCHANGED notP

\* run(): obj.run returned; the driver goes on to the next phase
NextPhaseStep ==
    /\ pc = "returned"
    /\ ph < NumPhases
    /\ ph' = NextPhase(ph)
    /\ pc' = IF ph' <= NumPhases THEN "construct" ELSE "done"
    /\ UNCHANGED <<num_cores, constructed, job_list, i, wave, k, st, joined,
                   waves, failedPhase, err>>
    /\ UNCHANGED notP

\* the last phase returned: print("DONE!!!")
Done ==
    /\ pc = "returned"
    /\ ph = NumPhases
    /\ pc' = "done"
    /\ UNCHANGED <<num_cores, ph, constructed, job_list, i, wave, k, st,
                   joined, waves, failedPhase, err>>
    /\ UNCHANGED notP

Next ==
    \/ Construct
    \/ RunnerRun
    \/ RunJobsTypeError
    \/ RunJobsIter
    \/ RunJobsReturn
    \/ StartJob
    \/ StartEDAOk
    \/ StartEDARaise
    \/ \E j \in DOMAIN st : JobSucceed(j)
    \/ \E j \in DOMAIN st : JobRaise(j)
    \/ JoinJob
    \/ SubJobsReturn
    \/ NextPhaseStep
    \/ Done

Spec == Init /\ [][Next]_vars

\* ------------------------------------------------- properties of the driver
Running == {j \in DOMAIN st : st[j] = "running"}

IsPrefix(s, t) == Len(s) <= Len(t) /\ SubSeq(t, 1, Len(s)) = s

\* sub_jobs is through with the w-th list it was handed
WaveOver(w) == w < Len(waves) \/ pc \notin {"start", "join"}

\* C1: the driver constructs the runners of the eight phases in the one
\* order 1, 2, ..., 8, and while a job is running its phase is the phase at
\* hand and the run call of that phase has not returned: the runner of the
\* next phase is constructed only after that return.
C1_PhaseBarrier ==
    /\ constructed = 1..(IF pc = "construct" THEN ph - 1 ELSE ph)
    /\ ph \in 1..NumPhases
    /\ \A j \in DOMAIN st :
         st[j] = "running" =>
            /\ j[1] = ph
            /\ pc \notin {"construct", "run", "returned", "done"}

C1_Witness ==
    /\ ph = 2
    /\ pc = "start"
    /\ \E j \in DOMAIN st : j[1] = 2 /\ st[j] = "running"

\* C2: a job of a later wave has been started only when every job of every
\* earlier wave of the run_jobs call has terminated and has been joined.
C2_WaveBarrier ==
    \A w1, w2 \in DOMAIN waves :
        w1 < w2 =>
            \A a \in Range(waves[w1]), b \in Range(waves[w2]) :
                st[b] # "new" => Terminated(a) /\ a \in joined

C2_Witness ==
    /\ Len(waves) >= 2
    /\ Len(waves[1]) >= 2
    /\ st[waves[2][1]] = "running"

\* C3: every list run_jobs hands to sub_jobs has between 1 and num_cores
\* jobs, the lists handed so far concatenate to a prefix of job_list, and
\* when run_jobs has returned they concatenate to job_list itself.
C3_WavePartition ==
    /\ \A w \in DOMAIN waves :
          Len(waves[w]) >= 1 /\ Len(waves[w]) <= num_cores.val
    /\ IsPrefix(Concat(waves), job_list)
    /\ pc \in {"returned", "done"} => Concat(waves) = job_list

C3_Witness ==
    /\ pc = "returned"
    /\ Len(waves) >= 2
    /\ Len(job_list) > num_cores.val
    /\ Concat(waves) = job_list

\* C4: at most num_cores jobs are started and not yet terminated.
C4_BoundedParallel == Cardinality(Running) <= num_cores.val

C4_Witness ==
    /\ Cardinality(Running) = num_cores.val
    /\ Len(job_list) > num_cores.val
    /\ Len(waves) >= 2

\* C5: once a job of a wave has failed no job of a later wave of the same
\* run_jobs call is started, and run_jobs does not return normally.
C5_FailStopsLaterWaves ==
    /\ \A w1, w2 \in DOMAIN waves :
          w1 < w2 =>
             \A a \in Range(waves[w1]), b \in Range(waves[w2]) :
                 st[a] = "failed" => st[b] = "new"
    /\ pc = "returned" => \A a \in Range(job_list) : st[a] # "failed"

\* C6: when sub_jobs is through with a wave in which a job raised, every
\* other job of that wave was started, has run to its end and was joined.
C6_SiblingsComplete ==
    \A w \in DOMAIN waves :
        WaveOver(w) =>
            \A a \in Range(waves[w]) :
                st[a] = "failed" =>
                    \A b \in Range(waves[w]) \ {a} :
                        Terminated(b) /\ b \in joined

\* C7: after a job of phase p failed no runner of a phase after p is
\* constructed and the driver does not reach "DONE!!!".
C7_FailedIsTerminal ==
    failedPhase # 0 =>
        /\ constructed \subseteq 1..failedPhase
        /\ pc # "done"

\* C15: whether the core count came from the environment variable or from
\* the host, run_jobs does not raise on it and every wave it hands to
\* sub_jobs has at most that many jobs.
C15_WorkerBudget ==
    /\ err # "TypeError"
    /\ \A w \in DOMAIN waves : Len(waves[w]) <= num_cores.val

\* C22: a step of sub_jobs that calls start() calls it on a job that was
\* never started, a step that calls join() calls it on a job that was not
\* joined, and a job that has ended, in success or in failure, stays as it
\* ended.
C22_NoRetry ==
    [][/\ (pc = "start" /\ <<k, pc>>' # <<k, pc>>) => st[wave[k]] = "new"
       /\ (pc = "join" /\ <<k, pc>>' # <<k, pc>>) => wave[k] \notin joined
       /\ \A j \in DOMAIN st \cap DOMAIN st' :
             Terminated(j) => st'[j] = st[j]]_vars

C22_Witness ==
    /\ pc = "returned"
    /\ Len(waves) >= 2
    /\ Range(job_list) \subseteq joined
    /\ \E j \in Range(waves[1]) : st[j] = "failed"

\* --------------------------------------------------------------- progress
\* the job objects a run can build
JobIds == {<<p, x>> : p \in 1..NumPhases, x \in 1..MaxJobs}

\* the script is one sequential process that goes on while it can; a started
\* job ends, normally or with an exception
DriverStep ==
    \/ Construct
    \/ RunnerRun
    \/ RunJobsTypeError
    \/ RunJobsIter
    \/ RunJobsReturn
    \/ StartJob
    \/ StartEDAOk
    \/ StartEDARaise
    \/ JoinJob
    \/ SubJobsReturn
    \/ NextPhaseStep
    \/ Done

LiveSpec ==
    /\ Init
    /\ [][Next]_vars
    /\ WF_vars(DriverStep)
    /\ \A j \in JobIds : WF_vars(JobSucceed(j) \/ JobRaise(j))

\* C23: when every started job ends, the run reaches DONE or stops with an
\* exception; and as long as a started job has not ended, sub_jobs is still
\* inside the wave of that job: no later wave and no later phase has begun.
C23_RunTerminates ==
    /\ <>(pc \in {"done", "failed"})
    /\ [](\A w \in DOMAIN waves : \A j \in Range(waves[w]) :
             st[j] = "running" =>
                 /\ w = Len(waves)
                 /\ ph = j[1]
                 /\ pc \in {"start", "join"})

C23_Witness ==
    /\ pc = "join"
    /\ st[wave[k]] = "running"
    /\ i + num_cores.val < Len(job_list)

\* ===================================================== the bodies of the jobs
\* str() of a fold index
ToStr(n) == <<"0", "1", "2", "3", "4", "5">>[n + 1]

\* dataset files: the parts of the file name that '.' separates, and whether
\* the table holds the class, match and instance label columns asked for
DatasetFiles == << <<"a", "csv", "labelled">>, <<"a", "txt", "labelled">>,
                   <<"b", "xls", "labelled">>, <<"c", "tsv", "unlabelled">> >>

\* Dataset.load_data: returns on csv, tsv and txt files that hold the label
\* columns, raises on every other file
LoadData(f) == f[2] \in {"csv", "tsv", "txt"} /\ f[3] = "labelled"

\* Dataset.__init__: name = path.split('/')[-1].split('.')[0]
DatasetName(f) == f[1]

\* the algorithm argument of FeatureImportance.run
FIAlgorithms == <<"MI", "MS", "XX">>

\* the lists a ReplicateJob is configured with
AlgorithmLists == {<<>>, <<"Naive Bayes">>,
                   <<"Naive Bayes", "Logistic Regression">>}

\* streamline.modeling.utils.ABBREVIATION
ABBREVIATION(a) ==
    IF a = "Naive Bayes" THEN "NB"
    ELSE IF a = "Logistic Regression" THEN "LR"
    ELSE "??"

\* the name of the training dataset, full_path.split('/')[-1]
train_name == "train"

\* the CV training file of fold c of a dataset: the parts that '/' separates,
\* the last of them as the parts that '_' separates
CVTrainPath(d, c) == <<"exp", d, "CVDatasets", <<d, "CV", ToStr(c), "Train">> >>

\* prepare_data: dataset.name = cv_train_path.split('/')[-3]
FIDatasetName(path) == path[Len(path) - 2]

\* prepare_data: cv_count = cv_train_path.split('/')[-1].split("_")[-2]
FICvCount(path) == path[Len(path)][Len(path[Len(path)]) - 1]

\* the n-th job object a runner can build, by kind
\* FeatureImportance: the CV training file of prepare_data and the algorithm
\*   passed to run
\* ReplicateJob, EDAJob: the dataset file
JobParam(kind, n) ==
    IF kind = "FeatureImportance"
      THEN LET path == CVTrainPath("d1", n \div Len(FIAlgorithms)) IN
           [kind |-> kind, file |-> path, name |-> FIDatasetName(path),
            cv |-> FICvCount(path),
            algorithm |-> FIAlgorithms[(n % Len(FIAlgorithms)) + 1]]
      ELSE [kind |-> kind, file |-> DatasetFiles[n + 1],
            name |-> DatasetName(DatasetFiles[n + 1]),
            cv |-> "", algorithm |-> ""]

NumParams(kind) ==
    IF kind = "FeatureImportance" THEN Len(FIAlgorithms) * MaxFolds
    ELSE Len(DatasetFiles)

\* Dataset(...) on the file of a job returns; the CV training files are
\* csv files that phase 2 wrote with their label columns
Loadable(job) == job.kind = "FeatureImportance" \/ LoadData(job.file)

JobKinds == {"EDAJob", "FeatureImportance", "ReplicateJob"}

Nth(S, n) == CHOOSE x \in S : Cardinality({y \in S : y < x}) = n - 1

J == 1..NJobs

\* run_mutual_information / run_multi_surf: alg_name
AlgName(a) == IF a = "MI" THEN "mutual_information" ELSE "multisurf"

\* ------------------------------------------------------------------ paths
\* FeatureImportance.run: jobsCompleted/job_<alg_name>_<dataset>_<cv>.txt
\* ReplicateJob.run:      jobsCompleted/job_apply_<apply_name>.txt
\* EDAJob:                jobsCompleted/job_exploratory_<dataset>.txt
MarkerPath_ext(job) ==
    IF job.kind = "FeatureImportance"
      THEN <<"jobsCompleted", "job", AlgName(job.algorithm), job.name, job.cv>>
    ELSE <<"jobsCompleted", "job", "apply", job.name, job.file[2]>>
MarkerPath(job) ==
    IF job.kind = "FeatureImportance"
      THEN <<"jobsCompleted", "job", AlgName(job.algorithm), job.name, job.cv>>
    ELSE IF job.kind = "ReplicateJob"
      THEN <<"jobsCompleted", "job", "apply", job.name>>
    ELSE <<"jobsCompleted", "job", "exploratory", job.name>>

IsMarker(p) == p[1] = "jobsCompleted"

\* run_mutual_information / run_multi_surf: output_path
ScorePath(job) ==
    <<job.name, "feature_selection", AlgName(job.algorithm), "scores_cv", job.cv>>

\* pickle_scores
PicklePath(job) ==
    <<job.name, "feature_selection", AlgName(job.algorithm),
      "pickledForPhase4", job.cv>>

\* pickle_scores: the directory of the pickles of one algorithm
PickleDir(job) ==
    <<job.name, "feature_selection", AlgName(job.algorithm), "pickledForPhase4">>

\* save_runtime
RuntimePath(job) ==
    IF job.kind = "FeatureImportance"
      THEN <<job.name, "runtime", AlgName(job.algorithm), "CV", job.cv>>
      ELSE <<job.name, "runtime", "exploratory">>

\* ReplicateJob.run: pickled_metrics/<abbrev>_CV_<cv>_metrics.pickle
MetricsPath(job, a, c) ==
    <<train_name, "applymodel", job.name, "model_evaluation",
      "pickled_metrics", ABBREVIATION(a), "CV", ToStr(c), "metrics">>

\* every output file of a job other than its marker
Artifacts(job) ==
    IF job.kind = "FeatureImportance"
      THEN {ScorePath(job), PicklePath(job), RuntimePath(job)}
    ELSE IF job.kind = "ReplicateJob"
      THEN {MetricsPath(job, algorithms[a], c) :
               a \in DOMAIN algorithms, c \in 0..(cv_partitions - 1)}
    ELSE {RuntimePath(job)}

\* open(path, 'w') ... write ... close(): the file holds the content
WriteFile(fs, p, content) ==
    [q \in DOMAIN fs \cup {p} |-> IF q = p THEN content ELSE fs[q]]

Exists(p) == p \in DOMAIN files

\* ------------------------------------------------- the order of statements
\* FeatureImportance.run
FIRun_markerBeforeRuntime ==
    <<"fi_prepare", "fi_assert", "fi_score", "fi_sort_save", "fi_exists",
      "fi_mkdir", "fi_pickle", "marker_open", "marker_write", "fi_runtime",
      "done">>
FIRun ==
    <<"fi_prepare", "fi_assert", "fi_score", "fi_sort_save", "fi_exists",
      "fi_mkdir", "fi_pickle", "fi_runtime", "marker_open", "marker_write",
      "done">>

\* EDAJob.run_explore
EDARun == <<"eda_load", "eda_folders", "eda_analysis", "eda_runtime", "done">>

\* ReplicateJob.run outside its loops
RepRun ==
    <<"rep_load", "rep_mkdirs", "rep_eda", "rep_loop", "rep_stats",
      "marker_open", "marker_write", "done">>

RunOf(kind) ==
    IF kind = "FeatureImportance" THEN FIRun
    ELSE IF kind = "ReplicateJob" THEN RepRun
    ELSE EDARun

\* the statement after statement s
After(run, s) == run[(CHOOSE x \in DOMAIN run : run[x] = s) + 1]

\* ReplicateJob.run: where the loops go on after a fold was prepared or a
\* model evaluated: the next algorithm, else the next fold, else the
\* statements after the loops
RepLoopNext_skipEval(c, a) ==
    IF c + 1 < cv_partitions THEN [pc |-> "rep_fold", cv |-> c + 1, a |-> 1]
    ELSE [pc |-> After(RepRun, "rep_loop"), cv |-> c + 1, a |-> 1]
RepLoopNext(c, a) ==
    IF a <= Len(algorithms) THEN [pc |-> "rep_eval", cv |-> c, a |-> a]
    ELSE IF c + 1 < cv_partitions THEN [pc |-> "rep_fold", cv |-> c + 1, a |-> 1]
    ELSE [pc |-> After(RepRun, "rep_loop"), cv |-> c + 1, a |-> 1]

\* the statements of the task body, before the marker is opened
BodySteps ==
    {"fi_prepare", "fi_assert", "fi_score", "fi_sort_save", "fi_exists",
     "fi_mkdir", "fi_pickle", "fi_runtime", "eda_load", "eda_folders", "eda_analysis", "eda_runtime",
     "rep_load", "rep_mkdirs", "rep_eda", "rep_fold", "rep_eval", "rep_stats"}

ActiveSteps == BodySteps \cup {"marker_open", "marker_write"}

\* an exception leaves run(): no handler of run() touches a file
FilesOnRaise_mark(j) == WriteFile(files, MarkerPath(jobs[j]), "complete")
FilesOnRaise(j) == files

\* ------------------------------------------------------------------- Init
JobInit ==
    /\ num_cores = [isInt |-> TRUE, val |-> 1]
    /\ pc = "construct"
    /\ ph = 1
    /\ constructed = {}
    /\ job_list = <<>>
    /\ i = 0
    /\ wave = <<>>
    /\ k = 1
    /\ st = <<>>
    /\ joined = {}
    /\ waves = <<>>
    /\ failedPhase = 0
    /\ err = "none"
    /\ \E kind \in JobKinds :
        /\ \E S \in SUBSET (0..(NumParams(kind) - 1)) :
              /\ Cardinality(S) = NJobs
              /\ jobs = [j \in J |-> JobParam(kind, Nth(S, j))]
        /\ jpc = [j \in J |-> IF kind = "EDAJob" /\ ~Loadable(jobs[j])
                                THEN "failed" ELSE RunOf(kind)[1]]
        /\ failedAt = [j \in J |-> IF kind = "EDAJob" /\ ~Loadable(jobs[j])
                                     THEN "construct" ELSE "none"]
        /\ IF kind = "ReplicateJob"
             THEN /\ cv_partitions \in 0..MaxFolds
                  /\ algorithms \in AlgorithmLists
             ELSE /\ cv_partitions = 0
                  /\ algorithms = <<>>
    /\ cv_count = [j \in J |-> 0]
    /\ alg_i = [j \in J |-> 1]
    /\ files = <<>>
    /\ wrote = [j \in J |-> {}]
    /\ dirs = {}
    /\ markers = <<>>
    /\ runNo = 1
    /\ matrix = 0
    /\ preMarkers = <<>>
    /\ prevClean = FALSE
    /\ faults = 0
    /\ NoCtor
    /\ NoFold
    /\ NoScore
    /\ NoEda

\* ---------------------------------------------------------------- actions
\* a statement of run() that writes no file of interest
Advance(j, s) ==
    /\ jpc[j] = s
    /\ jpc' = [jpc EXCEPT ![j] = After(RunOf(jobs[j].kind), s)]
    /\ UNCHANGED <<dirs, jobs, cv_partitions, algorithms, cv_count, alg_i, files,
                   wrote, failedAt>>
    /\ UNCHANGED notJ

\* a statement of run() that writes the file at path p
AdvanceWriting(j, s, p) ==
    /\ jpc[j] = s
    /\ jpc' = [jpc EXCEPT ![j] = After(RunOf(jobs[j].kind), s)]
    /\ files' = WriteFile(files, p, "data")
    /\ wrote' = [wrote EXCEPT ![j] = @ \cup {p}]
    /\ UNCHANGED <<dirs, jobs, cv_partitions, algorithms, cv_count, alg_i, failedAt>>
    /\ UNCHANGED notJ

\* FeatureImportance.run: prepare_data
FIPrepare(j) == Advance(j, "fi_prepare")

\* FeatureImportance.run: assert (algorithm == 'MI' or algorithm == 'MS')
FIAssert(j) ==
    /\ jobs[j].algorithm \in {"MI", "MS"}
    /\ Advance(j, "fi_assert")

\* FeatureImportance.run: run_mutual_information or run_multi_surf
FIScore(j) == Advance(j, "fi_score")

\* FeatureImportance.run: sort_save_fi_scores writes the score file
FISortSave(j) == AdvanceWriting(j, "fi_sort_save", ScorePath(jobs[j]))

\* pickle_scores: if not os.path.exists(<pickledForPhase4>)
FIExists(j) ==
    /\ jpc[j] = "fi_exists"
    /\ jpc' = [jpc EXCEPT ![j] = IF PickleDir(jobs[j]) \in dirs
                                   THEN "fi_pickle" ELSE "fi_mkdir"]
    /\ UNCHANGED <<dirs, jobs, cv_partitions, algorithms, cv_count, alg_i,
                   files, wrote, failedAt>>
    /\ UNCHANGED notJ

\* pickle_scores: os.mkdir(<pickledForPhase4>) on a path that does not exist
FIMkdir(j) ==
    /\ jpc[j] = "fi_mkdir"
    /\ PickleDir(jobs[j]) \notin dirs
    /\ dirs' = dirs \cup {PickleDir(jobs[j])}
    /\ jpc' = [jpc EXCEPT ![j] = "fi_pickle"]
    /\ UNCHANGED <<jobs, cv_partitions, algorithms, cv_count, alg_i, files,
                   wrote, failedAt>>
    /\ UNCHANGED notJ

\* pickle_scores: open(<pickle>, 'wb'); pickle.dump(...); close()
FIPickle(j) == AdvanceWriting(j, "fi_pickle", PicklePath(jobs[j]))

\* FeatureImportance.run: save_runtime
FISaveRuntime(j) == AdvanceWriting(j, "fi_runtime", RuntimePath(jobs[j]))

\* EDAJob.run_explore: self.dataset.load_data()
EDALoad(j) ==
    /\ Loadable(jobs[j])
    /\ Advance(j, "eda_load")

\* EDAJob.run_explore: make_log_folders
EDAFolders(j) == Advance(j, "eda_folders")

\* EDAJob.run_explore: the explorations and plots
EDAAnalysis(j) == Advance(j, "eda_analysis")

\* EDAJob.run_explore: save_runtime, its last statement
EDASaveRuntime(j) == AdvanceWriting(j, "eda_runtime", RuntimePath(jobs[j]))

\* ReplicateJob.run: load both datasets, compare their features
RepLoad(j) ==
    /\ Loadable(jobs[j])
    /\ Advance(j, "rep_load")

\* ReplicateJob.run: create the folder hierarchy
RepMkdirs(j) == Advance(j, "rep_mkdirs")

\* ReplicateJob.run: exploratory analysis of the replication data, then
\* glob the CV files and enter the loop over the folds
RepEda(j) ==
    /\ jpc[j] = "rep_eda"
    /\ jpc' = [jpc EXCEPT ![j] =
                 IF 0 < cv_partitions THEN "rep_fold"
                 ELSE After(RepRun, "rep_loop")]
    /\ cv_count' = [cv_count EXCEPT ![j] = 0]
    /\ alg_i' = [alg_i EXCEPT ![j] = 1]
    /\ UNCHANGED <<dirs, jobs, cv_partitions, algorithms, files, wrote, failedAt>>
    /\ UNCHANGED notJ

\* ReplicateJob.run: one fold: read the CV file, impute, scale, select
RepFold(j) ==
    /\ jpc[j] = "rep_fold"
    /\ LET nx == RepLoopNext(cv_count[j], 1) IN
        /\ jpc' = [jpc EXCEPT ![j] = nx.pc]
        /\ cv_count' = [cv_count EXCEPT ![j] = nx.cv]
        /\ alg_i' = [alg_i EXCEPT ![j] = nx.a]
    /\ UNCHANGED <<dirs, jobs, cv_partitions, algorithms, files, wrote, failedAt>>
    /\ UNCHANGED notJ

\* ReplicateJob.run: eval_model of one algorithm on one fold, and the dump
\* of its metrics
RepEval(j) ==
    /\ jpc[j] = "rep_eval"
    /\ LET nx == RepLoopNext(cv_count[j], alg_i[j] + 1)
           p == MetricsPath(jobs[j], algorithms[alg_i[j]], cv_count[j])
       IN
        /\ files' = WriteFile(files, p, "data")
        /\ wrote' = [wrote EXCEPT ![j] = @ \cup {p}]
        /\ jpc' = [jpc EXCEPT ![j] = nx.pc]
        /\ cv_count' = [cv_count EXCEPT ![j] = nx.cv]
        /\ alg_i' = [alg_i EXCEPT ![j] = nx.a]
    /\ UNCHANGED <<dirs, jobs, cv_partitions, algorithms, failedAt>>
    /\ UNCHANGED notJ

\* ReplicateJob.run: StatsJob over the master list; self.algorithms[0]
\* exists only in a non-empty list
RepStats(j) ==
    /\ algorithms # <<>>
    /\ Advance(j, "rep_stats")

\* job_file = open(<marker>, 'w')
MarkerOpen(j) ==
    /\ jpc[j] = "marker_open"
    /\ jpc' = [jpc EXCEPT ![j] = After(RunOf(jobs[j].kind), "marker_open")]
    /\ files' = WriteFile(files, MarkerPath(jobs[j]), "")
    /\ wrote' = [wrote EXCEPT ![j] = @ \cup {MarkerPath(jobs[j])}]
    /\ UNCHANGED <<dirs, jobs, cv_partitions, algorithms, cv_count, alg_i, failedAt>>
    /\ UNCHANGED notJ

\* job_file.write('complete'); job_file.close()
MarkerWrite(j) ==
    /\ jpc[j] = "marker_write"
    /\ jpc' = [jpc EXCEPT ![j] = After(RunOf(jobs[j].kind), "marker_write")]
    /\ files' = WriteFile(files, MarkerPath(jobs[j]), "complete")
    /\ UNCHANGED <<dirs, jobs, cv_partitions, algorithms, cv_count, alg_i, wrote,
                   failedAt>>
    /\ UNCHANGED notJ

\* the statement at hand can raise: the assert only on an algorithm that is
\* neither MI nor MS, os.mkdir only on a directory that exists, every other
\* statement on its input or on the disk
CanRaise(j) ==
    /\ jpc[j] \in ActiveSteps
    /\ jpc[j] = "fi_assert" => jobs[j].algorithm \notin {"MI", "MS"}
    /\ jpc[j] = "fi_mkdir" => PickleDir(jobs[j]) \in dirs

\* the statement at hand raises and the exception leaves run()
Raise(j) ==
    /\ CanRaise(j)
    /\ jpc' = [jpc EXCEPT ![j] = "failed"]
    /\ failedAt' = [failedAt EXCEPT ![j] = jpc[j]]
    /\ files' = FilesOnRaise(j)
    /\ UNCHANGED <<dirs, jobs, cv_partitions, algorithms, cv_count, alg_i, wrote>>
    /\ UNCHANGED notJ

\* the process of the job is killed
Crash(j) ==
    /\ jpc[j] \in ActiveSteps
    /\ jpc' = [jpc EXCEPT ![j] = "crashed"]
    /\ UNCHANGED <<dirs, jobs, cv_partitions, algorithms, cv_count, alg_i, files,
                   wrote, failedAt>>
    /\ UNCHANGED notJ

JobNext ==
    \/ \E j \in J : FIPrepare(j)
    \/ \E j \in J : FIAssert(j)
    \/ \E j \in J : FIScore(j)
    \/ \E j \in J : FISortSave(j)
    \/ \E j \in J : FIExists(j)
    \/ \E j \in J : FIMkdir(j)
    \/ \E j \in J : FIPickle(j)
    \/ \E j \in J : FISaveRuntime(j)
    \/ \E j \in J : EDALoad(j)
    \/ \E j \in J : EDAFolders(j)
    \/ \E j \in J : EDAAnalysis(j)
    \/ \E j \in J : EDASaveRuntime(j)
    \/ \E j \in J : RepLoad(j)
    \/ \E j \in J : RepMkdirs(j)
    \/ \E j \in J : RepEda(j)
    \/ \E j \in J : RepFold(j)
    \/ \E j \in J : RepEval(j)
    \/ \E j \in J : RepStats(j)
    \/ \E j \in J : MarkerOpen(j)
    \/ \E j \in J : MarkerWrite(j)
    \/ \E j \in J : Raise(j)
    \/ \E j \in J : Crash(j)

JobSpec == JobInit /\ [][JobNext]_vars

\* ---------------------------------------------- properties of the job bodies
Markers(fs) == {p \in DOMAIN fs : IsMarker(p)}

\* C8: whenever the marker file of a FeatureImportance job or a ReplicateJob
\* exists, every output file of that job (score file, pickled scores or
\* metrics, runtime record) exists with its content written.
C8_MarkerIsLastWrite ==
    \A j \in J :
        (jobs[j].kind \in {"FeatureImportance", "ReplicateJob"}
            /\ Exists(MarkerPath(jobs[j]))) =>
                \A p \in Artifacts(jobs[j]) : Exists(p) /\ files[p] = "data"

C8_Witness ==
    \E j \in J :
        /\ jobs[j].kind \in {"FeatureImportance", "ReplicateJob"}
        /\ Artifacts(jobs[j]) # {}
        /\ Exists(MarkerPath(jobs[j]))
        /\ \E j2 \in J : jpc[j2] = "crashed"

\* C9: a step in which the task body of a job raises changes no marker
\* file, and a job whose task body raised has opened no marker for writing.
C9_RaiseWritesNoMarker ==
    /\ [][\A j \in J :
            (jpc[j] # "failed" /\ jpc'[j] = "failed"
                /\ failedAt'[j] \in BodySteps) =>
                    /\ Markers(files') = Markers(files)
                    /\ \A p \in Markers(files) : files'[p] = files[p]]_vars
    /\ [](\A j \in J :
            (jpc[j] = "failed" /\ failedAt[j] \in BodySteps) =>
                \A p \in wrote[j] : ~IsMarker(p))

C9_Witness ==
    \E j, j2 \in J :
        /\ jpc[j] = "failed"
        /\ failedAt[j] \in {"fi_assert", "rep_fold", "rep_eval"}
        /\ ~Exists(MarkerPath(jobs[j]))
        /\ j2 # j
        /\ jpc[j2] = "done"
        /\ Exists(MarkerPath(jobs[j2]))

\* C10: when run() of a job of any kind has returned, the marker of the job
\* exists under jobsCompleted with the content "complete".
C10_EveryKindRecords ==
    \A j \in J :
        jpc[j] = "done" =>
            /\ Exists(MarkerPath(jobs[j]))
            /\ files[MarkerPath(jobs[j])] = "complete"

\* the tag of the marker of a job: alg_name, or 'apply'
Tag(job) ==
    IF job.kind = "FeatureImportance" THEN AlgName(job.algorithm) ELSE "apply"

\* jobsCompleted/job_<tag>_<datasetName>[_<fold>].txt
PatternPath(tag, name, fold) ==
    IF fold = "" THEN <<"jobsCompleted", "job", tag, name>>
    ELSE <<"jobsCompleted", "job", tag, name, fold>>

MarkersOf(j) == {p \in wrote[j] : IsMarker(p)}

\* C13: every marker a job opened lies at the path the pattern gives for its
\* tag, dataset name and fold; a marker file holds nothing or exactly
\* "complete", and exactly "complete" once every job that opened it ran to
\* its end; jobs with the same tag, dataset name and fold open the same
\* marker.
C13_MarkerPathDeterministic ==
    /\ \A j \in J : \A p \in MarkersOf(j) :
          /\ p = PatternPath(Tag(jobs[j]), jobs[j].name, jobs[j].cv)
          /\ files[p] \in {"", "complete"}
          /\ (\A j2 \in J : p \in wrote[j2] => jpc[j2] = "done")
                => files[p] = "complete"
    /\ \A j1, j2 \in J :
          (/\ jpc[j1] = "done" /\ jpc[j2] = "done"
           /\ Tag(jobs[j1]) = Tag(jobs[j2])
           /\ jobs[j1].name = jobs[j2].name
           /\ jobs[j1].cv = jobs[j2].cv) => MarkersOf(j1) = MarkersOf(j2)

C13_Witness ==
    /\ \E j1, j2 \in J :
          /\ j1 # j2
          /\ jpc[j1] = "done" /\ jpc[j2] = "done"
          /\ MarkersOf(j1) # {} /\ MarkersOf(j1) = MarkersOf(j2)
          /\ \A p \in MarkersOf(j1) : files[p] = "complete"

\* C14: two jobs of a wave that differ in dataset file, fold or algorithm
\* open different markers, and two jobs that ran to their end on different
\* dataset files worked under different dataset names.
C14_KeysDistinct ==
    \A j1, j2 \in J :
        (j1 # j2 /\ jobs[j1] # jobs[j2]) =>
            /\ MarkersOf(j1) \cap MarkersOf(j2) = {}
            /\ (jobs[j1].kind # "FeatureImportance"
                  /\ jpc[j1] = "done" /\ jpc[j2] = "done"
                  /\ jobs[j1].file # jobs[j2].file)
                  => jobs[j1].name # jobs[j2].name

\* C18: a job whose dataset file is of an unsupported format or lacks a
\* label column never gets past the load, writes no file, and when it has
\* failed it failed where the Dataset was constructed for it, before it was
\* started.
C18_BadDatasetFailsBeforeStart ==
    \A j \in J :
        ~Loadable(jobs[j]) =>
            /\ jpc[j] \in {"eda_load", "rep_load", "failed", "crashed"}
            /\ wrote[j] = {}
            /\ jpc[j] = "failed" => failedAt[j] = "construct"

\* C19: no job fails in the os.mkdir of a directory that a job of the same
\* wave has created in the meantime.
C19_MkdirIdempotent ==
    \A j \in J : ~(jpc[j] = "failed" /\ failedAt[j] = "fi_mkdir")

\* C21: no step deletes a marker file, and a marker that holds "complete"
\* holds it after every step, whatever the other jobs of the wave do and
\* however they end.
C21_MarkersOnlyGrow ==
    [][\A p \in Markers(files) :
          /\ p \in Markers(files')
          /\ files[p] = "complete" => files'[p] = "complete"]_vars

\* C25: two different jobs of a wave have written no file in common.
C25_DisjointWrites ==
    \A j1, j2 \in J : j1 # j2 => wrote[j1] \cap wrote[j2] = {}

\* the metrics file of algorithm number a on fold c is among the files job j
\* has written
MetricsWritten(j, c, a) == MetricsPath(jobs[j], algorithms[a], c) \in wrote[j]

OtherJobWritesMarker == TRUE

\* the job classes whose run() ends by writing a marker: FeatureImportance.run
\* does, EDAJob.run_explore ends with save_runtime
WritesMarker(kind) ==
    IF kind = "EDAJob" THEN FALSE
    ELSE IF kind = "FeatureImportance" THEN TRUE
    ELSE OtherJobWritesMarker

\* CompletionLedger.isComplete: the marker exists and holds the payload
IsComplete_exists(ms, j) == j \in DOMAIN ms
IsComplete(ms, j) == j \in DOMAIN ms /\ ms[j] = "complete"

\* the job matrix of a phase, in its order
Matrix(p) == [x \in 1..matrix |-> <<p, x>>]

\* the resume filter of a runner: the jobs that are not complete
Incomplete(j) == ~IsComplete(markers, j)
FilterJobs(full) == SelectSeq(full, Incomplete)

\* open(<marker>, 'w') on the marker of job j
MarkerOpened(ms, j) ==
    [x \in DOMAIN ms \cup {j} |-> IF x = j THEN "" ELSE ms[x]]

\* job_file.write('complete') on the marker of job j
MarkerWritten(ms, j) ==
    [x \in DOMAIN ms \cup {j} |-> IF x = j THEN "complete" ELSE ms[x]]

ResumeInit ==
    /\ num_cores \in NumCoresValues
    /\ pc = "construct"
    /\ ph = 1
    /\ constructed = {}
    /\ job_list = <<>>
    /\ i = 0
    /\ wave = <<>>
    /\ k = 1
    /\ st = <<>>
    /\ joined = {}
    /\ waves = <<>>
    /\ failedPhase = 0
    /\ err = "none"
    /\ jobs = <<>>
    /\ cv_partitions = 0
    /\ algorithms = <<>>
    /\ jpc = <<>>
    /\ cv_count = <<>>
    /\ alg_i = <<>>
    /\ files = <<>>
    /\ wrote = <<>>
    /\ failedAt = <<>>
    /\ dirs = {}
    /\ markers = <<>>
    /\ runNo = 1
    /\ matrix \in 0..MaxJobs
    /\ preMarkers = <<>>
    /\ prevClean = FALSE
    /\ faults = 0
    /\ NoCtor
    /\ NoFold
    /\ NoScore
    /\ NoEda

\* obj.run(run_parallel=True): build the job matrix of the phase, drop the
\* jobs that are complete, hand a non-empty rest to run_jobs
ResumeRunnerRun ==
    /\ pc = "run"
    /\ job_list' = FilterJobs(Matrix(ph))
    /\ st' = [j \in DOMAIN st \cup Range(job_list') |->
                IF j \in DOMAIN st THEN st[j] ELSE "new"]
    /\ pc' = IF job_list' = <<>> THEN "returned" ELSE "run_jobs"
    /\ i' = 0
    /\ UNCHANGED <<num_cores, ph, constructed, wave, k, joined, waves,
                   failedPhase, err>>
    /\ UNCHANGED <<jvars, rvars, cvars, fvars, svars, evars>>

\* the run() of a running job reaches job_file = open(<marker>, 'w')
JobMarkerOpen(j) ==
    /\ j \in DOMAIN st
    /\ st[j] = "running"
    /\ WritesMarker(JobKind(j[1]))
    /\ st' = [st EXCEPT ![j] = "marking"]
    /\ markers' = MarkerOpened(markers, j)
    /\ UNCHANGED <<num_cores, pc, ph, constructed, job_list, i, wave, k,
                   joined, waves, failedPhase, err>>
    /\ UNCHANGED <<runNo, matrix, preMarkers, prevClean, faults>>
    /\ UNCHANGED <<jvars, cvars, fvars, svars, evars>>

\* job_file.write('complete'); job_file.close(); run() returns
JobMarkerWrite(j) ==
    /\ j \in DOMAIN st
    /\ st[j] = "marking"
    /\ st' = [st EXCEPT ![j] = "ok"]
    /\ markers' = MarkerWritten(markers, j)
    /\ UNCHANGED <<num_cores, pc, ph, constructed, job_list, i, wave, k,
                   joined, waves, failedPhase, err>>
    /\ UNCHANGED <<runNo, matrix, preMarkers, prevClean, faults>>
    /\ UNCHANGED <<jvars, cvars, fvars, svars, evars>>

\* the run() of a running job raises, or its process is killed, before the
\* marker is opened or between the open and the write
JobFault(j) ==
    /\ j \in DOMAIN st
    /\ st[j] \in {"running", "marking"}
    /\ faults < MaxFaults
    /\ faults' = faults + 1
    /\ st' = [st EXCEPT ![j] = "failed"]
    /\ failedPhase' = IF failedPhase = 0 THEN j[1] ELSE failedPhase
    /\ UNCHANGED <<num_cores, pc, ph, constructed, job_list, i, wave, k,
                   joined, waves, err>>
    /\ UNCHANGED <<markers, runNo, matrix, preMarkers, prevClean>>
    /\ UNCHANGED <<jvars, cvars, fvars, svars, evars>>

\* the operator invokes the script again on the same experiment directory
Rerun ==
    /\ pc \in {"done", "failed"}
    /\ runNo < MaxRuns
    /\ runNo' = runNo + 1
    /\ prevClean' = (pc = "done" /\ failedPhase = 0)
    /\ preMarkers' = markers
    /\ pc' = "construct"
    /\ ph' = 1
    /\ constructed' = {}
    /\ job_list' = <<>>
    /\ i' = 0
    /\ wave' = <<>>
    /\ k' = 1
    /\ st' = <<>>
    /\ joined' = {}
    /\ waves' = <<>>
    /\ failedPhase' = 0
    /\ err' = "none"
    /\ UNCHANGED <<num_cores, markers, matrix, faults>>
    /\ UNCHANGED <<jvars, cvars, fvars, svars, evars>>

ResumeNext ==
    \/ Construct
    \/ ResumeRunnerRun
    \/ RunJobsTypeError
    \/ RunJobsIter
    \/ RunJobsReturn
    \/ StartJob
    \/ StartEDAOk
    \/ StartEDARaise
    \/ \E j \in DOMAIN st : JobMarkerOpen(j)
    \/ \E j \in DOMAIN st : JobMarkerWrite(j)
    \/ \E j \in DOMAIN st : JobFault(j)
    \/ JoinJob
    \/ SubJobsReturn
    \/ NextPhaseStep
    \/ Done
    \/ Rerun

ResumeSpec == ResumeInit /\ [][ResumeNext]_vars

\* ------------------------------------------------ properties of the resume
CompleteIn(ms) == {j \in DOMAIN ms : ms[j] = "complete"}

\* the runner of the phase at hand has filtered its job matrix
Filtered == pc \in {"run_jobs", "start", "join", "sub_return", "returned"}

\* C11: in an invocation that follows one that ended in DONE with no job
\* failed, no job is handed to run_jobs and the set of complete markers is
\* the one the invocation found.
C11_ResumeIdempotent ==
    (runNo > 1 /\ prevClean /\ Filtered) =>
        /\ job_list = <<>>
        /\ CompleteIn(markers) = CompleteIn(preMarkers)

\* C12: the jobs of a phase that are handed to run_jobs are exactly the jobs
\* of its matrix that had no complete marker when the invocation began, and
\* when the invocation ends in DONE with no job failed every job of every
\* matrix has a complete marker.
C12_PartialResume ==
    /\ Filtered =>
          Range(job_list) = Range(Matrix(ph)) \ CompleteIn(preMarkers)
    /\ (pc = "done" /\ failedPhase = 0) =>
          \A p \in 1..NumPhases :
              Range(Matrix(p)) \subseteq CompleteIn(markers)

Remove(l, x) ==
    LET at == CHOOSE n \in DOMAIN l : l[n] = x /\ \A m \in 1..(n - 1) : l[m] # x
    IN  [n \in 1..(Len(l) - 1) |-> IF n < at THEN l[n] ELSE l[n + 1]]

\* streamline.modeling.utils.is_supported_model: the name when it is one of
\* the supported models, an exception otherwise
IsSupportedModel(a) == a \in Range(SupportedModels)

\* the list that self.algorithms denotes
SelfAlgorithms == IF aliased THEN SUPPORTED_MODELS ELSE self_algorithms

CtorInit ==
    /\ num_cores = [isInt |-> TRUE, val |-> 1]
    /\ pc = "construct"
    /\ ph = 1
    /\ constructed = {}
    /\ job_list = <<>>
    /\ i = 0
    /\ wave = <<>>
    /\ k = 1
    /\ st = <<>>
    /\ joined = {}
    /\ waves = <<>>
    /\ failedPhase = 0
    /\ err = "none"
    /\ jobs = <<>>
    /\ cv_partitions = 0
    /\ algorithms = <<>>
    /\ jpc = <<>>
    /\ cv_count = <<>>
    /\ alg_i = <<>>
    /\ files = <<>>
    /\ wrote = <<>>
    /\ failedAt = <<>>
    /\ dirs = {}
    /\ markers = <<>>
    /\ runNo = 1
    /\ matrix = 0
    /\ preMarkers = <<>>
    /\ prevClean = FALSE
    /\ faults = 0
    /\ NoCtor
    /\ NoFold
    /\ NoScore
    /\ NoEda

\* ReplicateJob(..., algorithms=a, exclude=e, ...) is called
CtorCall ==
    /\ cpc \in {"idle", "constructed"}
    /\ built < MaxCtors
    /\ built' = built + 1
    /\ \E a \in ArgValues, e \in ArgValues :
          args' = [algorithms |-> a, exclude |-> e]
    /\ self_algorithms' = <<>>
    /\ aliased' = FALSE
    /\ ci' = 1
    /\ cpc' = "branch"
    /\ UNCHANGED SUPPORTED_MODELS
    /\ UNCHANGED <<pvars, jvars, rvars, fvars, svars, evars>>

\* if algorithms is None: self.algorithms = SUPPORTED_MODELS
\* else: self.algorithms = list()
CtorBranch ==
    /\ cpc = "branch"
    /\ aliased' = args.algorithms.isNone
    /\ cpc' = IF ~args.algorithms.isNone THEN "append_loop"
              ELSE IF args.exclude.isNone THEN "constructed"
              ELSE "exclude_loop"
    /\ UNCHANGED <<SUPPORTED_MODELS, args, self_algorithms, ci, built>>
    /\ UNCHANGED <<pvars, jvars, rvars, fvars, svars, evars>>

\* for algorithm in exclude: self.algorithms.remove(algorithm) finds it
CtorExcludeRemove ==
    /\ cpc = "exclude_loop"
    /\ ci <= Len(args.exclude.list)
    /\ args.exclude.list[ci] \in Range(SUPPORTED_MODELS)
    /\ SUPPORTED_MODELS' = Remove(SUPPORTED_MODELS, args.exclude.list[ci])
    /\ ci' = ci + 1
    /\ UNCHANGED <<args, self_algorithms, aliased, cpc, built>>
    /\ UNCHANGED <<pvars, jvars, rvars, fvars, svars, evars>>

\* for algorithm in exclude: remove raises ValueError; the handler builds an
\* Exception object and drops it
CtorExcludeUnknown ==
    /\ cpc = "exclude_loop"
    /\ ci <= Len(args.exclude.list)
    /\ args.exclude.list[ci] \notin Range(SUPPORTED_MODELS)
    /\ ci' = ci + 1
    /\ UNCHANGED <<SUPPORTED_MODELS, args, self_algorithms, aliased, cpc, built>>
    /\ UNCHANGED <<pvars, jvars, rvars, fvars, svars, evars>>

\* for algorithm in algorithms:
\*     self.algorithms.append(is_supported_model(algorithm))
CtorAppend ==
    /\ cpc = "append_loop"
    /\ ci <= Len(args.algorithms.list)
    /\ IsSupportedModel(args.algorithms.list[ci])
    /\ self_algorithms' = Append(self_algorithms, args.algorithms.list[ci])
    /\ ci' = ci + 1
    /\ UNCHANGED <<SUPPORTED_MODELS, args, aliased, cpc, built>>
    /\ UNCHANGED <<pvars, jvars, rvars, fvars, svars, evars>>

\* is_supported_model raises and the exception leaves __init__
CtorUnsupported ==
    /\ cpc = "append_loop"
    /\ ci <= Len(args.algorithms.list)
    /\ ~IsSupportedModel(args.algorithms.list[ci])
    /\ cpc' = "raised"
    /\ UNCHANGED <<SUPPORTED_MODELS, args, self_algorithms, aliased, ci, built>>
    /\ UNCHANGED <<pvars, jvars, rvars, fvars, svars, evars>>

\* the loop is exhausted; the rest of __init__ assigns fields and returns
CtorReturn ==
    /\ cpc \in {"exclude_loop", "append_loop"}
    /\ ci > Len(IF cpc = "exclude_loop" THEN args.exclude.list
                ELSE args.algorithms.list)
    /\ cpc' = "constructed"
    /\ UNCHANGED <<SUPPORTED_MODELS, args, self_algorithms, aliased, ci, built>>
    /\ UNCHANGED <<pvars, jvars, rvars, fvars, svars, evars>>

CtorNext ==
    \/ CtorCall
    \/ CtorBranch
    \/ CtorExcludeRemove
    \/ CtorExcludeUnknown
    \/ CtorAppend
    \/ CtorUnsupported
    \/ CtorReturn

CtorSpec == CtorInit /\ [][CtorNext]_vars

\* ----------------------------------------------- properties of the constructor
\* the names of the exclude argument
Excluded == IF args.exclude.isNone THEN {} ELSE Range(args.exclude.list)

\* the names of the algorithms argument
Requested == IF args.algorithms.isNone THEN {} ELSE Range(args.algorithms.list)

\* C16: the list of a constructed job holds no name of its exclude argument.
C16_ExcludedNeverListed ==
    cpc = "constructed" => Excluded \cap Range(SelfAlgorithms) = {}

\* C17: a job whose algorithms or exclude argument holds a name that is not
\* a supported model is never constructed: __init__ raises.
C17_UnknownNameIsFatal ==
    cpc = "constructed" =>
        (Excluded \cup Requested) \subseteq Range(SupportedModels)

\* C29: the list SUPPORTED_MODELS is as it was imported, and the list of a
\* job constructed without an algorithms argument holds the supported
\* models that its own exclude argument does not name.
C29_CtorLeavesGlobal ==
    /\ SUPPORTED_MODELS = SupportedModels
    /\ (cpc = "constructed" /\ args.algorithms.isNone) =>
          Range(SelfAlgorithms) = Range(SupportedModels) \ Excluded

\* ============================================ ReplicateJob.run: the fold loop
\* the state of the driver, of the job bodies and of the ledger while none
\* of them acts
Idle ==
    /\ num_cores = [isInt |-> TRUE, val |-> 1]
    /\ pc = "construct"
    /\ ph = 1
    /\ constructed = {}
    /\ job_list = <<>>
    /\ i = 0
    /\ wave = <<>>
    /\ k = 1
    /\ st = <<>>
    /\ joined = {}
    /\ waves = <<>>
    /\ failedPhase = 0
    /\ err = "none"
    /\ jobs = <<>>
    /\ cv_partitions = 0
    /\ algorithms = <<>>
    /\ jpc = <<>>
    /\ cv_count = <<>>
    /\ alg_i = <<>>
    /\ files = <<>>
    /\ wrote = <<>>
    /\ failedAt = <<>>
    /\ dirs = {}
    /\ markers = <<>>
    /\ runNo = 1
    /\ matrix = 0
    /\ preMarkers = <<>>
    /\ prevClean = FALSE
    /\ faults = 0

\* all_train_feature_list: the columns of the training data without the
\* class and instance labels
TrainFeatures == {"f1", "f2"}

\* the columns of a data frame with the class label, the instance label when
\* one is configured, and the given features
Columns(inst, features) ==
    {"Class"} \cup (IF inst THEN {"Inst"} ELSE {}) \cup features

\* the columns of the CV training file after feature selection
CVTrainFeatures == {"f1"}

\* impute_rep_data: impute_rep_df is built in the multi_impute branch only
\* and is None otherwise; return impute_rep_df
ImputeRepData(multi, inst, df) ==
    IF multi THEN Frame(Columns(inst, TrainFeatures)) ELSE None

\* scale_rep_data
ScaleRepData(inst, df) == Frame(Columns(inst, TrainFeatures))

FoldInit ==
    /\ Idle
    /\ NoCtor
    /\ NoScore
    /\ NoEda
    /\ rep \in [impute_data : BOOLEAN, multi_impute : BOOLEAN,
                scale_data : BOOLEAN, instance_label : BOOLEAN]
    /\ nfolds \in 0..MaxFolds
    /\ imputers \in SUBSET (0..(nfolds - 1))
    /\ fold_i = 0
    /\ fpc = "loop"
    /\ cv_rep_data = None
    /\ ferr = "none"

\* for cv_count in range(0, cv_partitions): read the CV training file,
\* cv_rep_data = rep_data.data.copy()
FoldRead ==
    /\ fpc = "loop"
    /\ fold_i < nfolds
    /\ cv_rep_data' = Frame(Columns(rep.instance_label, TrainFeatures))
    /\ fpc' = "impute"
    /\ UNCHANGED <<rep, imputers, nfolds, fold_i, ferr>>
    /\ UNCHANGED <<pvars, jvars, rvars, cvars, svars, evars>>

\* if self.impute_data: cv_rep_data = self.impute_rep_data(...)
FoldImpute ==
    /\ fpc = "impute"
    /\ rep.impute_data => fold_i \in imputers
    /\ cv_rep_data' =
          IF rep.impute_data
            THEN ImputeRepData(rep.multi_impute, rep.instance_label, cv_rep_data)
            ELSE cv_rep_data
    /\ fpc' = "scale"
    /\ UNCHANGED <<rep, imputers, nfolds, fold_i, ferr>>
    /\ UNCHANGED <<pvars, jvars, rvars, cvars, svars, evars>>

\* impute_rep_data: open() of a pickle that does not exist raises; the
\* handler of run() raises Exception("Notice: Imputation was not conducted
\* ...")
FoldImputeRaise ==
    /\ fpc = "impute"
    /\ rep.impute_data
    /\ fold_i \notin imputers
    /\ fpc' = "failed"
    /\ ferr' = "Notice"
    /\ UNCHANGED <<rep, imputers, nfolds, fold_i, cv_rep_data>>
    /\ UNCHANGED <<pvars, jvars, rvars, cvars, svars, evars>>

\* if self.scale_data: cv_rep_data = self.scale_rep_data(...)
FoldScale ==
    /\ fpc = "scale"
    /\ rep.scale_data => ~cv_rep_data.isNone
    /\ cv_rep_data' =
          IF rep.scale_data THEN ScaleRepData(rep.instance_label, cv_rep_data)
          ELSE cv_rep_data
    /\ fpc' = "select"
    /\ UNCHANGED <<rep, imputers, nfolds, fold_i, ferr>>
    /\ UNCHANGED <<pvars, jvars, rvars, cvars, svars, evars>>

\* scale_rep_data: cv_rep_data.drop(...) on None
FoldScaleRaise ==
    /\ fpc = "scale"
    /\ rep.scale_data
    /\ cv_rep_data.isNone
    /\ fpc' = "failed"
    /\ ferr' = "AttributeError"
    /\ UNCHANGED <<rep, imputers, nfolds, fold_i, cv_rep_data>>
    /\ UNCHANGED <<pvars, jvars, rvars, cvars, svars, evars>>

\* cv_rep_data = cv_rep_data[cv_train_data.columns]
FoldSelect ==
    /\ fpc = "select"
    /\ ~cv_rep_data.isNone
    /\ cv_rep_data' = Frame(Columns(rep.instance_label, CVTrainFeatures))
    /\ fpc' = "eval"
    /\ UNCHANGED <<rep, imputers, nfolds, fold_i, ferr>>
    /\ UNCHANGED <<pvars, jvars, rvars, cvars, svars, evars>>

\* cv_rep_data[...] on None
FoldSelectRaise ==
    /\ fpc = "select"
    /\ cv_rep_data.isNone
    /\ fpc' = "failed"
    /\ ferr' = "TypeError"
    /\ UNCHANGED <<rep, imputers, nfolds, fold_i, cv_rep_data>>
    /\ UNCHANGED <<pvars, jvars, rvars, cvars, svars, evars>>

\* the loop over the algorithms: eval_model and the dump of the metrics; the
\* for loop goes on to the next fold
FoldEval ==
    /\ fpc = "eval"
    /\ fold_i' = fold_i + 1
    /\ fpc' = "loop"
    /\ UNCHANGED <<rep, imputers, nfolds, cv_rep_data, ferr>>
    /\ UNCHANGED <<pvars, jvars, rvars, cvars, svars, evars>>

\* the range is exhausted: the statistics, then the marker is written
FoldLoopEnd ==
    /\ fpc = "loop"
    /\ fold_i >= nfolds
    /\ fpc' = "done"
    /\ UNCHANGED <<rep, imputers, nfolds, fold_i, cv_rep_data, ferr>>
    /\ UNCHANGED <<pvars, jvars, rvars, cvars, svars, evars>>

FoldNext ==
    \/ FoldRead
    \/ FoldImpute
    \/ FoldImputeRaise
    \/ FoldScale
    \/ FoldScaleRaise
    \/ FoldSelect
    \/ FoldSelectRaise
    \/ FoldEval
    \/ FoldLoopEnd

FoldSpec == FoldInit /\ [][FoldNext]_vars

\* C24: a job does not fail on a fold whose imputation pickles are missing.
C24_MissingImputerIsSignal ==
    ~(fpc = "failed" /\ ferr = "Notice" /\ fold_i \notin imputers)

\* C28: when impute_rep_data has returned, cv_rep_data is a data frame with
\* the columns of the replication data it was called with.
C28_ImputeReturnsFrame ==
    (fpc = "scale" /\ rep.impute_data) =>
        /\ ~cv_rep_data.isNone
        /\ cv_rep_data.cols = Columns(rep.instance_label, TrainFeatures)

\* ======================================= FeatureImportance.sort_save_fi_scores
\* the feature columns a dataset can have, in order
FeatureNames == <<"f1", "f2", "f3", "f4">>

\* the characters of a path
PathChars == {"/", "s"}

\* FeatureImportance.run: the second argument of the call of
\* sort_save_fi_scores, ordered_feature_names, is output_path
OrderedFeatureNames == output_path

\* the keys of a dictionary filled in the order of names, in insertion order
Keys(names) ==
    LET first == {x \in DOMAIN names :
                     \A y \in 1..(x - 1) : names[y] # names[x]}
    IN  [n \in 1..Cardinality(first) |-> names[Nth(first, n)]]

\* for each in ordered_feature_names: score_dict[each] = scores[i]; i += 1
ScoreDict(names, sc) ==
    [key \in Range(names) |->
        sc[CHOOSE x \in DOMAIN names :
              names[x] = key /\ \A y \in DOMAIN names : names[y] = key => y <= x]]

\* sorted(score_dict, key=lambda x: score_dict[x], reverse=True): the keys by
\* decreasing score, keys of equal score in insertion order
SortedByScore(d, keys) ==
    CHOOSE q \in [DOMAIN keys -> Range(keys)] :
        /\ \A x, y \in DOMAIN q : x # y => q[x] # q[y]
        /\ \A x, y \in DOMAIN q : x < y =>
              \/ d[q[x]] > d[q[y]]
              \/ /\ d[q[x]] = d[q[y]]
                 /\ \E a, b \in DOMAIN keys :
                       a < b /\ keys[a] = q[x] /\ keys[b] = q[y]

ScoreInit ==
    /\ Idle
    /\ NoCtor
    /\ NoFold
    /\ NoEda
    /\ \E n \in 1..MaxFeatures :
          /\ feature_names = [x \in 1..n |-> FeatureNames[x]]
          /\ scores \in [1..n -> 0..MaxScore]
    /\ output_path \in UNION {[1..n -> PathChars] : n \in 1..MaxPath}
    /\ score_dict = <<>>
    /\ score_sorted_features = <<>>
    /\ spc = "sort_save"

\* sort_save_fi_scores(scores, output_path, output_path, alg_name) returns
SortSave ==
    /\ spc = "sort_save"
    /\ Len(OrderedFeatureNames) <= Len(scores)
    /\ score_dict' = ScoreDict(OrderedFeatureNames, scores)
    /\ score_sorted_features' =
          SortedByScore(score_dict', Keys(OrderedFeatureNames))
    /\ spc' = "pickle"
    /\ UNCHANGED <<feature_names, scores, output_path>>
    /\ UNCHANGED <<pvars, jvars, rvars, cvars, fvars, evars>>

\* scores[i] with i beyond the last score: IndexError
SortSaveIndexError ==
    /\ spc = "sort_save"
    /\ Len(OrderedFeatureNames) > Len(scores)
    /\ spc' = "failed"
    /\ UNCHANGED <<feature_names, scores, output_path, score_dict,
                   score_sorted_features>>
    /\ UNCHANGED <<pvars, jvars, rvars, cvars, fvars, evars>>

\* pickle_scores(alg_name, scores, score_dict, score_sorted_features)
PickleScores ==
    /\ spc = "pickle"
    /\ spc' = "done"
    /\ UNCHANGED <<feature_names, scores, output_path, score_dict,
                   score_sorted_features>>
    /\ UNCHANGED <<pvars, jvars, rvars, cvars, fvars, evars>>

ScoreNext ==
    \/ SortSave
    \/ SortSaveIndexError
    \/ PickleScores

ScoreSpec == ScoreInit /\ [][ScoreNext]_vars

\* C27: sort_save_fi_scores does not raise, and what is pickled is a
\* dictionary whose keys are the feature names of the dataset, each with its
\* score, and the list of those names in non-increasing order of score.
C27_ScoresByFeature ==
    /\ spc # "failed"
    /\ spc \in {"pickle", "done"} =>
          /\ DOMAIN score_dict = Range(feature_names)
          /\ \A x \in DOMAIN feature_names :
                score_dict[feature_names[x]] = scores[x]
          /\ Range(score_sorted_features) = Range(feature_names)
          /\ Len(score_sorted_features) = Len(feature_names)
          /\ \A x, y \in DOMAIN score_sorted_features : x < y =>
                score_dict[score_sorted_features[x]]
                    >= score_dict[score_sorted_features[y]]

\* ============================================================ EDAJob.__init__
explorations_list == <<"Describe", "Differentiate", "Univariate Analysis">>
plot_list == <<"Describe", "Univariate Analysis", "Feature Correlation">>

\* an option that is None, or a list of at most MaxArgs distinct names
OptionValues ==
    LET names == Range(explorations_list) \cup Range(plot_list) \cup {"Bogus"}
    IN  {[isNone |-> TRUE, list |-> <<>>]} \cup
        {[isNone |-> FALSE, list |-> l] :
            l \in {q \in UNION {[1..n -> names] : n \in 0..MaxArgs} :
                      \A x, y \in DOMAIN q : x # y => q[x] # q[y]}}

\* EDAJob(dataset, experiment_path, explorations=e, plots=p) is called
EdaInit ==
    /\ Idle
    /\ NoCtor
    /\ NoFold
    /\ NoScore
    /\ eda_args \in [explorations : OptionValues, plots : OptionValues]
    /\ explorations = <<>>
    /\ plots = <<>>
    /\ epc = "defaults"

\* self.explorations = explorations, explorations_list when it is None;
\* self.plots = plots, plot_list when it is None
EdaDefaults ==
    /\ epc = "defaults"
    /\ explorations' = IF eda_args.explorations.isNone THEN explorations_list
                       ELSE eda_args.explorations.list
    /\ plots' = IF eda_args.plots.isNone THEN plot_list
                ELSE eda_args.plots.list
    /\ epc' = "check_explorations"
    /\ UNCHANGED eda_args
    /\ UNCHANGED <<pvars, jvars, rvars, cvars, fvars, svars>>

\* for x in self.explorations: if x not in explorations_list: raise; the
\* first loop finds every entry known
EdaCheckExplorations ==
    /\ epc = "check_explorations"
    /\ \A x \in Range(explorations) : x \in Range(explorations_list)
    /\ epc' = "check_plots"
    /\ UNCHANGED <<eda_args, explorations, plots>>
    /\ UNCHANGED <<pvars, jvars, rvars, cvars, fvars, svars>>

\* either loop finds an entry of self.explorations that is not in
\* explorations_list and raises
EdaCheckRaise ==
    /\ epc \in {"check_explorations", "check_plots"}
    /\ \E x \in Range(explorations) : x \notin Range(explorations_list)
    /\ epc' = "raised"
    /\ UNCHANGED <<eda_args, explorations, plots>>
    /\ UNCHANGED <<pvars, jvars, rvars, cvars, fvars, svars>>

\* the second loop, again for x in self.explorations against
\* explorations_list, finds every entry known; __init__ returns
EdaCheckPlots ==
    /\ epc = "check_plots"
    /\ \A x \in Range(explorations) : x \in Range(explorations_list)
    /\ epc' = "constructed"
    /\ UNCHANGED <<eda_args, explorations, plots>>
    /\ UNCHANGED <<pvars, jvars, rvars, cvars, fvars, svars>>

EdaNext ==
    \/ EdaDefaults
    \/ EdaCheckExplorations
    \/ EdaCheckRaise
    \/ EdaCheckPlots

EdaSpec == EdaInit /\ [][EdaNext]_vars

\* C30: a constructed EDAJob has only known explorations and only known
\* plots.
C30_OptionsValidated ==
    epc = "constructed" =>
        /\ Range(explorations) \subseteq Range(explorations_list)
        /\ Range(plots) \subseteq Range(plot_list)

====
